---- MODULE Spec2Model ----
(* A model of src/app.py: the PIN-addressed file relay.  Every Streamlit      *)
(* session runs the script in its own thread; the threads share the metadata  *)
(* file, the blob directory, the wall clock and file_lock.                    *)
EXTENDS Integers, Sequences, FiniteSets, TLC

(* ---------------------------------------------------------------- bounds *)
NumThreads == 2
NumPins == 2
TickStep == 24
MaxTime == 48

(* ------------------------------------------------------ program constants *)
PinLo == 1000
TTL == 24

Threads == 1..NumThreads
NoThread == 0
\* random.randint(1000, 9999), cut to the first NumPins values of the range
PINS == PinLo..(PinLo + NumPins - 1)
NoPin == 0

\* the files a user may hand to st.file_uploader: name, MIME type, bytes
UploadedFiles ==
    { [name |-> "a.txt", type |-> "text/plain", data |-> <<1, 2>>] }
NoFile == [name |-> "", type |-> "", data |-> << >>]
\* uploads whose name the client chose to hold path separators (the browser
\* sends the name, the script takes it as it comes): a parent-directory
\* sequence and an absolute path
HostileFiles ==
    { [name |-> "x/../../evil", type |-> "text/plain", data |-> <<3>>],
      [name |-> "/etc/passwd", type |-> "text/plain", data |-> <<4>>] }

EmptyDict == << >>
NoInfo == [filename |-> "", filepath |-> << >>, size |-> 0,
           upload_time |-> 0, type |-> ""]

\* one script run (one Streamlit session thread); the fields are the script's
\* local variables
IdleRun ==
    [pc |-> "idle",
     tab |-> "none",             \* the handler the run executes after cleanup
     uploaded_file |-> NoFile,
     pin_input |-> NoPin,
     pin |-> NoPin,              \* generate_pin's pin
     metadata |-> EmptyDict,     \* the local dict named metadata
     current_time |-> 0,         \* cleanup_old_files' current_time
     pins_to_remove |-> {},      \* cleanup_old_files' pins_to_remove
     file_info |-> NoInfo,       \* the download tab's file_info
     file_data |-> << >>,        \* the download tab's file_data
     caller |-> "none",          \* who called save_file_metadata
     st_error |-> FALSE,         \* st.error("Error saving metadata") rendered
     shown |-> "none"]           \* the outcome the run rendered

VARIABLES
    now,        \* datetime.now(), in hours
    metaFile,   \* METADATA_FILE on disk: [kind, doc]
    blobs,      \* the files of STORAGE_DIR: path -> bytes
    file_lock,  \* the thread holding file_lock, or NoThread
    run,        \* the script run of each thread
    committed,  \* history: PINs whose upload was reported successful and that
                \* no run has removed since
    crashed,    \* the process was killed and no run has started since
    issued      \* history: PINs that a page has shown as the PIN of an upload

vars == <<now, metaFile, blobs, file_lock, run, committed, crashed, issued>>

(* ------------------------------------------------------------ dictionaries *)
DictSet(d, k, v) == [x \in DOMAIN d \cup {k} |-> IF x = k THEN v ELSE d[x]]
DictDel(d, k) == [x \in DOMAIN d \ {k} |-> d[x]]
DictDelAll(d, ks) == [x \in DOMAIN d \ ks |-> d[x]]

(* ----------------------------------------------------------- serialization *)
\* datetime.isoformat() and datetime.fromisoformat(): the JSON document holds
\* the timestamp as a string, the dict in memory as a datetime
IsoFormat(d) == [iso |-> d]
FromIsoFormat(s) == s.iso

SerializeInfo(info) == [info EXCEPT !.upload_time = IsoFormat(@)]
ParseInfo(info) == [info EXCEPT !.upload_time = FromIsoFormat(@)]

\* lines 48-53: serializable_data
Serializable(md) == [p \in DOMAIN md |-> SerializeInfo(md[p])]

\* load_file_metadata: {} when the file is absent, {} when json.load raises
\* on a truncated file (the except branch), the parsed document otherwise
load_file_metadata ==
    IF metaFile.kind = "ok"
    THEN [p \in DOMAIN metaFile.doc |-> ParseInfo(metaFile.doc[p])]
    ELSE EmptyDict

(* -------------------------------------------------------------- blob store *)
\* a path is the sequence of its components; a component is <<pin, text>>,
\* the PIN being the prefix that f"{pin}_{...}" glued to the text, or NoPin
Comp(s) == <<NoPin, s>>
\* line 18: os.path.join(tempfile.gettempdir(), "streamlit_file_transfer")
STORAGE_DIR == <<Comp("tmp"), Comp("streamlit_file_transfer")>>
\* line 22: os.makedirs(STORAGE_DIR, exist_ok=True): the directories there are
ExistingDirs == { SubSeq(STORAGE_DIR, 1, i) : i \in 0..Len(STORAGE_DIR) }

\* the components of a file name, cut at its path separators
NameParts(name) ==
    CASE name = "x/../../evil" -> <<"x", "..", "..", "evil">>
      [] name = "/etc/passwd" -> <<"", "etc", "passwd">>
      [] OTHER -> <<name>>

\* os.path.join(STORAGE_DIR, f"{pin}_{uploaded_file.name}"): the PIN is glued
\* to the first component of the name, the others follow as they are
FilePath(p, name) ==
    LET parts == NameParts(name)
    IN  STORAGE_DIR \o << <<p, Head(parts)>> >>
            \o [i \in 1..(Len(parts) - 1) |-> Comp(parts[i + 1])]

\* the place a path names once "." and ".." are resolved
RECURSIVE NormalizeFrom(_, _)
NormalizeFrom(seen, rest) ==
    IF rest = << >> THEN seen
    ELSE LET c == Head(rest)
             next == IF c = Comp("..")
                     THEN IF seen = << >> THEN << >>
                          ELSE SubSeq(seen, 1, Len(seen) - 1)
                     ELSE IF c \in {Comp("."), Comp("")} THEN seen
                     ELSE Append(seen, c)
         IN  NormalizeFrom(next, Tail(rest))
NormPath(path) == NormalizeFrom(<< >>, path)

Parent(path) == SubSeq(path, 1, Len(path) - 1)

\* open(path, "wb") can create the file: a POSIX kernel walks the path and
\* needs every directory on the way to exist; Win32 resolves ".." in the
\* string before it looks at the disk and needs the directory of the resolved
\* place only
CanCreate(path) ==
    \/ \A i \in 1..(Len(path) - 1) : SubSeq(path, 1, i) \in ExistingDirs
    \/ Parent(NormPath(path)) \in ExistingDirs

Exists(path) == path \in DOMAIN blobs
\* os.remove guarded by os.path.exists, OSError ignored
Remove(b, path) == [q \in DOMAIN b \ {path} |-> b[q]]

\* lines 81-87: the record save_file_with_pin stores
NewInfo(f, p, t) ==
    [filename |-> f.name, filepath |-> FilePath(p, f.name),
     size |-> Len(f.data), upload_time |-> t, type |-> f.type]

\* line 109: current_time - upload_time > timedelta(hours=24)
Expired(info, t) == t - info.upload_time > TTL

(* ------------------------------------------------------------------- Init *)
Init ==
    /\ now = 0
    /\ metaFile = [kind |-> "absent", doc |-> EmptyDict]
    /\ blobs = << >>
    /\ file_lock = NoThread
    /\ run = [t \in Threads |-> IdleRun]
    /\ committed = {}
    /\ crashed = FALSE
    /\ issued = {}

(* ------------------------------------------------------- the script run *)
\* the handler is over: what it rendered is on the page, and the script goes
\* on to the footer and the admin view
Done(r, msg) ==
    [IdleRun EXCEPT !.pc = "done", !.tab = r.tab,
                    !.uploaded_file = r.uploaded_file,
                    !.pin_input = r.pin_input, !.pin = r.pin,
                    !.file_data = r.file_data, !.st_error = r.st_error,
                    !.shown = msg]

\* cleanup_old_files has returned to line 132: its locals die and the script
\* goes on to the tabs
Dispatch(r) ==
    [r EXCEPT !.metadata = EmptyDict, !.current_time = 0,
              !.pins_to_remove = {}, !.caller = "none", !.pc = "tabs"]

\* lines 310-337: the footer and the admin view (a load that changes nothing)
\* end the run
Finish(t) ==
    /\ run[t].pc = "done"
    /\ run' = [run EXCEPT ![t] = IdleRun]
    /\ UNCHANGED <<now, metaFile, blobs, file_lock, committed, issued, crashed>>

(* ---------------------------------------------------- cleanup_old_files *)
ExpiredPins(md, t) == {p \in DOMAIN md : Expired(md[p], t)}

\* lines 119-126 once the loop is over: delete the entries, save if any
CleanupFinish(r) ==
    IF r.pins_to_remove # {}
    THEN [r EXCEPT !.metadata = DictDelAll(@, r.pins_to_remove),
                   !.caller = "cleanup", !.pc = "save_lock"]
    ELSE Dispatch(r)

\* a session reruns the script, which calls cleanup_old_files first (line
\* 132): lines 104-106, and the whole loop when nothing has expired
CleanupLoad(t) ==
    /\ run[t].pc = "idle"
    /\ LET r == [run[t] EXCEPT !.metadata = load_file_metadata,
                               !.current_time = now,
                               !.pins_to_remove = {},
                               !.pc = "cleanup_loop"]
       IN  run' = [run EXCEPT ![t] =
                IF ExpiredPins(r.metadata, r.current_time) = {}
                THEN CleanupFinish(r) ELSE r]
    /\ crashed' = FALSE
    /\ UNCHANGED <<now, metaFile, blobs, file_lock, committed, issued>>

\* lines 108-116 for one expired entry, and lines 119-126 after the last one
CleanupRemove(t) ==
    /\ run[t].pc = "cleanup_loop"
    /\ \E p \in ExpiredPins(run[t].metadata, run[t].current_time)
                    \ run[t].pins_to_remove :
          LET r == [run[t] EXCEPT !.pins_to_remove = @ \cup {p}]
          IN  /\ blobs' = Remove(blobs, run[t].metadata[p].filepath)
              /\ run' = [run EXCEPT ![t] =
                    IF ExpiredPins(r.metadata, r.current_time)
                            = r.pins_to_remove
                    THEN CleanupFinish(r) ELSE r]
    /\ UNCHANGED <<now, metaFile, file_lock, committed, issued, crashed>>

(* ------------------------------------------------------------ generate_pin *)
\* lines 151 and 162: a file is in the uploader and the button was clicked;
\* line 165 calls generate_pin, whose line 62 loads the metadata
GenLoadOf(t, files) ==
    /\ run[t].pc = "tabs"
    /\ \E f \in files :
          run' = [run EXCEPT ![t].tab = "upload",
                             ![t].uploaded_file = f,
                             ![t].metadata = load_file_metadata,
                             ![t].pc = "generate_pin_loop"]
    /\ UNCHANGED <<now, metaFile, blobs, file_lock, committed, issued, crashed>>

\* lines 63-66: one turn of the loop
GenDraw(t) ==
    /\ run[t].pc = "generate_pin_loop"
    /\ \E p \in PINS :
          run' = [run EXCEPT ![t] =
                IF p \notin DOMAIN run[t].metadata
                THEN [@ EXCEPT !.pin = p, !.metadata = EmptyDict,
                               !.pc = "open_blob"]
                ELSE [@ EXCEPT !.pin = p]]
    /\ UNCHANGED <<now, metaFile, blobs, file_lock, committed, issued, crashed>>

GenLoad(t) == GenLoadOf(t, UploadedFiles)

(* ------------------------------------------------------ save_file_with_pin *)
\* line 74: open(file_path, "wb") creates or truncates the blob, or raises
BlobOpen(t) ==
    /\ run[t].pc = "open_blob"
    /\ LET path == FilePath(run[t].pin, run[t].uploaded_file.name)
       IN  \/ /\ CanCreate(path)
              /\ blobs' = DictSet(blobs, path, << >>)
              /\ run' = [run EXCEPT ![t].pc = "write_blob"]
           \/ /\ UNCHANGED blobs
              /\ run' = [run EXCEPT ![t] = Done(@, "upload_error")]
    /\ UNCHANGED <<now, metaFile, file_lock, committed, issued, crashed>>

\* line 75 and the close: the bytes reach the file (if it is still linked), or
\* the write raises and the file stays as open left it
BlobWrite(t) ==
    /\ run[t].pc = "write_blob"
    /\ LET path == FilePath(run[t].pin, run[t].uploaded_file.name)
       IN  \/ /\ blobs' = IF Exists(path)
                          THEN DictSet(blobs, path, run[t].uploaded_file.data)
                          ELSE blobs
              /\ run' = [run EXCEPT ![t].pc = "commit"]
           \/ /\ UNCHANGED blobs
              /\ run' = [run EXCEPT ![t] = Done(@, "upload_error")]
    /\ UNCHANGED <<now, metaFile, file_lock, committed, issued, crashed>>

\* lines 78-90: load, add the entry, call save_file_metadata
Commit(t) ==
    /\ run[t].pc = "commit"
    /\ run' = [run EXCEPT
          ![t].metadata = DictSet(load_file_metadata, run[t].pin,
                                  NewInfo(run[t].uploaded_file, run[t].pin, now)),
          ![t].caller = "upload",
          ![t].pc = "save_lock"]
    /\ UNCHANGED <<now, metaFile, blobs, file_lock, committed, issued, crashed>>

(* ------------------------------------------------------ save_file_metadata *)
\* save_file_metadata returns None on both paths; its caller goes on:
\* cleanup_old_files returns len(pins_to_remove) to line 132, the upload tab
\* renders st.success (line 169), the download tab ends
SaveReturn(r) ==
    CASE r.caller = "cleanup" -> Dispatch(r)
      [] r.caller = "upload" -> Done(r, "uploaded")
      [] OTHER -> Done(r, "missing")

\* what the callers of the finished operation were told
Told(r) ==
    CASE r.caller = "cleanup" -> committed \ r.pins_to_remove
      [] r.caller = "upload" -> committed \cup {r.pin}
      [] OTHER -> committed \ {r.pin_input}

\* line 169: st.success shows the PIN of the upload
Shown(r) == IF r.caller = "upload" THEN issued \cup {r.pin} ELSE issued

\* line 46: with file_lock
SaveLock(t) ==
    /\ run[t].pc = "save_lock"
    /\ file_lock = NoThread
    /\ file_lock' = t
    /\ run' = [run EXCEPT ![t].pc = "save_open"]
    /\ UNCHANGED <<now, metaFile, blobs, committed, issued, crashed>>

\* SaveOpen as it would be with file_lock.acquire() and a release() after
\* json.dump instead of the with statement: an exception leaves the lock held
SaveOpenNoRelease(t) ==
    /\ run[t].pc = "save_open"
    /\ \/ /\ metaFile' = [kind |-> "partial", doc |-> EmptyDict]
          /\ run' = [run EXCEPT ![t].pc = "save_write"]
          /\ UNCHANGED <<file_lock, committed, issued>>
       \/ /\ UNCHANGED <<metaFile, file_lock>>
          /\ run' = [run EXCEPT ![t] =
                SaveReturn([@ EXCEPT !.st_error = TRUE])]
          /\ committed' = Told(run[t])
          /\ issued' = Shown(run[t])
    /\ UNCHANGED <<now, blobs, crashed>>

\* line 55: open(METADATA_FILE, 'w') truncates the file; or it raises, the
\* with statement releases the lock and line 58 renders the error
SaveOpen(t) ==
    /\ run[t].pc = "save_open"
    /\ \/ /\ metaFile' = [kind |-> "partial", doc |-> EmptyDict]
          /\ run' = [run EXCEPT ![t].pc = "save_write"]
          /\ UNCHANGED <<file_lock, committed, issued>>
       \/ /\ UNCHANGED metaFile
          /\ file_lock' = NoThread
          /\ run' = [run EXCEPT ![t] =
                SaveReturn([@ EXCEPT !.st_error = TRUE])]
          /\ committed' = Told(run[t])
          /\ issued' = Shown(run[t])
    /\ UNCHANGED <<now, blobs, crashed>>

\* line 56 and the close: the document reaches the file; or the write raises
\* and the file stays truncated.  Either way the lock is released.
SaveWrite(t) ==
    /\ run[t].pc = "save_write"
    /\ \/ /\ metaFile' = [kind |-> "ok",
                          doc |-> Serializable(run[t].metadata)]
          /\ run' = [run EXCEPT ![t] = SaveReturn(@)]
       \/ /\ UNCHANGED metaFile
          /\ run' = [run EXCEPT ![t] =
                SaveReturn([@ EXCEPT !.st_error = TRUE])]
    /\ file_lock' = NoThread
    /\ committed' = Told(run[t])
    /\ issued' = Shown(run[t])
    /\ UNCHANGED <<now, blobs, crashed>>

(* ------------------------------------------------------------ download tab *)
\* lines 215-216: a 4-digit pin_input is in the box (the download tab runs in
\* every run that reaches it, also right after the upload handler); line 218
\* calls get_file_by_pin(pin_input), line 220 tests the result
GetFile(t) ==
    /\ \/ run[t].pc = "tabs"
       \/ run[t].pc = "done" /\ run[t].tab = "upload"
    /\ \E p \in PINS :
          LET md == load_file_metadata
              r == [IdleRun EXCEPT !.tab = "download", !.pin_input = p,
                                   !.st_error = run[t].st_error]
          IN  run' = [run EXCEPT ![t] =
                    IF p \in DOMAIN md
                    THEN [r EXCEPT !.file_info = md[p], !.pc = "exists"]
                    ELSE Done(r, "invalid")]
    /\ UNCHANGED <<now, metaFile, blobs, file_lock, committed, issued, crashed>>

\* no file in the uploader and no pin_input: neither handler runs
NoTab(t) ==
    /\ run[t].pc = "tabs"
    /\ run' = [run EXCEPT ![t] = Done(@, "none")]
    /\ UNCHANGED <<now, metaFile, blobs, file_lock, committed, issued, crashed>>

\* line 222: os.path.exists(file_info['filepath'])
CheckExists(t) ==
    /\ run[t].pc = "exists"
    /\ run' = [run EXCEPT ![t].pc =
          IF Exists(run[t].file_info.filepath) THEN "read_blob" ELSE "evict"]
    /\ UNCHANGED <<now, metaFile, blobs, file_lock, committed, issued, crashed>>

\* ReadBlob as a single-use download would be: the blob is consumed
ReadBlobOnce(t) ==
    /\ run[t].pc = "read_blob"
    /\ LET path == run[t].file_info.filepath
       IN  /\ run' = [run EXCEPT ![t] =
                IF Exists(path)
                THEN Done([@ EXCEPT !.file_data = blobs[path]], "download")
                ELSE Done(@, "read_error")]
           /\ blobs' = Remove(blobs, path)
    /\ UNCHANGED <<now, metaFile, file_lock, committed, issued, crashed>>

\* lines 238-253: read the blob and offer it, or render the read error
ReadBlob(t) ==
    /\ run[t].pc = "read_blob"
    /\ LET path == run[t].file_info.filepath
       IN  run' = [run EXCEPT ![t] =
                IF Exists(path)
                THEN Done([@ EXCEPT !.file_data = blobs[path]], "download")
                ELSE Done(@, "read_error")]
    /\ UNCHANGED <<now, metaFile, blobs, file_lock, committed, issued, crashed>>

\* lines 255-261: the blob is missing; load, delete the entry, save
Evict(t) ==
    /\ run[t].pc = "evict"
    /\ LET md == load_file_metadata
       IN  run' = [run EXCEPT ![t] =
                IF run[t].pin_input \in DOMAIN md
                THEN [@ EXCEPT !.metadata = DictDel(md, run[t].pin_input),
                               !.caller = "evict", !.pc = "save_lock"]
                ELSE Done(@, "missing")]
    /\ UNCHANGED <<now, metaFile, blobs, file_lock, committed, issued, crashed>>

(* ------------------------------------------------------------ environment *)
\* the wall clock advances
Tick ==
    /\ now + TickStep <= MaxTime
    /\ now' = now + TickStep
    /\ UNCHANGED <<metaFile, blobs, file_lock, run, committed, issued, crashed>>

\* the process is killed while some run is under way and is started again:
\* the files stay as they are, the threads and the lock are gone
Crash ==
    /\ \E t \in Threads : run[t].pc # "idle"
    /\ run' = [t \in Threads |-> IdleRun]
    /\ file_lock' = NoThread
    /\ crashed' = TRUE
    /\ UNCHANGED <<now, metaFile, blobs, committed, issued>>

Step(t) ==
    \/ CleanupLoad(t)
    \/ CleanupRemove(t)
    \/ GenLoad(t)
    \/ GenDraw(t)
    \/ BlobOpen(t)
    \/ BlobWrite(t)
    \/ Commit(t)
    \/ SaveLock(t)
    \/ SaveOpen(t)
    \/ SaveWrite(t)
    \/ GetFile(t)
    \/ NoTab(t)
    \/ CheckExists(t)
    \/ ReadBlob(t)
    \/ Evict(t)
    \/ Finish(t)

Next ==
    \/ \E t \in Threads : Step(t)
    \/ Tick
    \/ Crash

Spec == Init /\ [][Next]_vars

\* one session only, every thread step scheduled fairly: the interpreter goes
\* on executing a running script; failures, the clock and a kill are not forced
Next1 ==
    \/ Step(1)
    \/ Tick
    \/ Crash

FairSpec1 == Init /\ [][Next1]_vars /\ WF_vars(Step(1))

\* the sessions during the first 24 hours: the clock does not reach the age at
\* which a record expires, so cleanup_old_files finds nothing to remove and no
\* blob goes missing
StepFirstDay(t) ==
    \/ CleanupLoad(t)
    \/ GenLoad(t)
    \/ GenDraw(t)
    \/ BlobOpen(t)
    \/ BlobWrite(t)
    \/ Commit(t)
    \/ SaveLock(t)
    \/ SaveOpen(t)
    \/ SaveWrite(t)
    \/ GetFile(t)
    \/ NoTab(t)
    \/ CheckExists(t)
    \/ ReadBlob(t)
    \/ Finish(t)

NextFirstDay ==
    \/ \E t \in Threads : StepFirstDay(t)
    \/ Crash

\* every session's script goes on running, and a thread that asks for
\* file_lock again and again while it is free again and again gets it
FairSpecFirstDay ==
    /\ Init /\ [][NextFirstDay]_vars
    /\ \A t \in Threads : WF_vars(StepFirstDay(t)) /\ SF_vars(SaveLock(t))

\* one session whose uploads may carry any file name
StepAnyName(t) ==
    \/ CleanupLoad(t)
    \/ CleanupRemove(t)
    \/ GenLoadOf(t, UploadedFiles \cup HostileFiles)
    \/ GenDraw(t)
    \/ BlobOpen(t)
    \/ BlobWrite(t)
    \/ Commit(t)
    \/ SaveLock(t)
    \/ SaveOpen(t)
    \/ SaveWrite(t)
    \/ GetFile(t)
    \/ NoTab(t)
    \/ CheckExists(t)
    \/ ReadBlob(t)
    \/ Evict(t)
    \/ Finish(t)

NextAnyName1 ==
    \/ StepAnyName(1)
    \/ Tick
    \/ Crash

AnyNameSpec1 == Init /\ [][NextAnyName1]_vars

(* ================================================================ claims *)
\* generate_pin has returned a PIN to the run and save_file_with_pin has not
\* returned yet
InPublish(t) ==
    /\ run[t].tab = "upload"
    /\ run[t].pc \in {"open_blob", "write_blob", "commit",
                      "save_lock", "save_open", "save_write"}

\* the step with which the upload handler of t ends
PublishReturns(t) ==
    /\ run[t].tab = "upload"
    /\ run[t].pc \in {"open_blob", "write_blob", "save_open", "save_write"}
    /\ run'[t].pc = "done"

\* the step with which save_file_metadata, called by t, returns
SaveReturns(t) ==
    /\ run[t].pc \in {"save_open", "save_write"}
    /\ run'[t].pc \in {"tabs", "done"}

\* C1: two publishes under way at the same time never hold the same PIN.
C1_DistinctPins ==
    \A t1, t2 \in Threads :
        t1 # t2 /\ InPublish(t1) /\ InPublish(t2)
            => run[t1].pin # run[t2].pin

\* C2: when a publish returns success, a lookup of its PIN at that moment
\* finds a record with the upload's filename, size and type.
C2_ResolveAfterPublish ==
    [][\A t \in Threads :
          PublishReturns(t) /\ run'[t].shown = "uploaded"
            => LET md == load_file_metadata'
                   f == run[t].uploaded_file
               IN  /\ run[t].pin \in DOMAIN md
                   /\ md[run[t].pin].filename = f.name
                   /\ md[run[t].pin].size = Len(f.data)
                   /\ md[run[t].pin].type = f.type]_vars

\* C3: a lookup never finds a record whose 24 hours are over, whether or not
\* cleanup_old_files has removed it.
C3_ExpiredNotFound ==
    [][\A t \in Threads :
          run[t].pc \in {"tabs", "done"} /\ run'[t].pc = "exists"
            => ~Expired(run'[t].file_info, now)]_vars

\* C4: when cleanup_old_files returns after removing entries, the stored
\* document is the one it loaded less exactly the expired entries (so the
\* count drops by the number returned), and while it runs it deletes no blob
\* but those of the expired entries.
C4_ReapExact ==
    [][\A t \in Threads :
          /\ SaveReturns(t) /\ run[t].caller = "cleanup"
                => /\ load_file_metadata' = run[t].metadata
                   /\ metaFile'.kind = "ok"
          /\ run[t].pc = "cleanup_loop" /\ run'[t] # run[t]
                => \A q \in DOMAIN blobs :
                      (\A p \in ExpiredPins(run[t].metadata,
                                            run[t].current_time) :
                            run[t].metadata[p].filepath # q)
                        => q \in DOMAIN blobs' /\ blobs'[q] = blobs[q]]_vars

\* C5: a lookup that finds a record without its blob never serves it, and
\* when it ends the record is no longer in the stored document.
C5_EvictsDangling ==
    [][\A t \in Threads :
          /\ run[t].pc = "exists" /\ ~Exists(run[t].file_info.filepath)
                => run'[t].pc # "read_blob"
          /\ run[t].pc \in {"evict", "save_open", "save_write"}
                /\ run'[t].pc = "done" /\ run'[t].shown = "missing"
                => run[t].pin_input \notin DOMAIN load_file_metadata']_vars

\* C6: when save_file_metadata returns without the document being in the
\* file, its caller is not told that the update was made.
C6_SaveFailureReported ==
    [][\A t \in Threads :
          SaveReturns(t)
          /\ metaFile' # [kind |-> "ok", doc |-> Serializable(run[t].metadata)]
            => /\ run'[t].shown # "uploaded"
               /\ committed' = committed]_vars

\* C7: publish is all-or-nothing: when it returns a failure neither the record
\* nor the blob of its PIN exists, when it returns success both do.
C7_PublishAllOrNothing ==
    [][\A t \in Threads :
          PublishReturns(t)
            => LET path == FilePath(run[t].pin, run[t].uploaded_file.name)
                   hasRecord == run[t].pin \in DOMAIN load_file_metadata'
                   hasBlob == path \in DOMAIN blobs'
               IN  IF run'[t].shown = "uploaded"
                   THEN hasRecord /\ hasBlob
                   ELSE ~hasRecord /\ ~hasBlob]_vars

\* C8: after the process was killed the metadata file parses and holds every
\* record whose publish had reported success (and that no run removed).
C8_CrashKeepsCommitted ==
    crashed => /\ metaFile.kind # "partial"
               /\ committed \subseteq DOMAIN load_file_metadata

\* C9: generate_pin leaves its loop even when every PIN it can draw is a key
\* of the metadata it loaded.
C9_GeneratePinTerminates ==
    (run[1].pc = "generate_pin_loop" /\ DOMAIN run[1].metadata = PINS)
        ~> (run[1].pc # "generate_pin_loop")

\* the steps of a fetch: lines 218-249
FetchStep(t) ==
    /\ run'[t] # run[t]
    /\ run'[t].tab = "download"
    /\ run[t].pc \in {"tabs", "exists", "read_blob"}
            \/ (run[t].pc = "done" /\ run[t].tab = "upload")
    /\ run'[t].pc \in {"exists", "read_blob", "done"}

\* C10: a fetch changes neither the metadata file nor any blob; it goes on to
\* serve the blob while the record and the blob are there, and what it serves
\* is the content of the blob, so the next fetch finds what this one found.
C10_FetchChangesNothing ==
    [][\A t \in Threads :
          FetchStep(t)
            => /\ metaFile' = metaFile
               /\ blobs' = blobs
               /\ run[t].pc = "exists" /\ Exists(run[t].file_info.filepath)
                    => run'[t].pc = "read_blob"
               /\ run[t].pc = "read_blob" /\ Exists(run[t].file_info.filepath)
                    => /\ run'[t].shown = "download"
                       /\ run'[t].file_data = blobs'[run[t].file_info.filepath]
               /\ run'[t].shown = "download"
                    => run'[t].file_data = blobs'[run[t].file_info.filepath]]_vars

\* two runs have fetched the same PIN and were served the same bytes
C10_Witness ==
    \E t1, t2 \in Threads :
        /\ t1 # t2
        /\ run[t1].pc = "done" /\ run[t1].shown = "download"
        /\ run[t2].pc = "done" /\ run[t2].shown = "download"
        /\ run[t1].pin_input = run[t2].pin_input
        /\ run[t1].file_data = run[t2].file_data
        /\ run[t1].file_data # << >>

\* the bytes of the upload a record was made from (NewInfo keeps the name,
\* the type and the length of the upload)
PublishedData(info) ==
    { f.data : f \in { g \in UploadedFiles :
                          /\ g.name = info.filename
                          /\ g.type = info.type
                          /\ Len(g.data) = info.size } }

\* C11: a fetch that serves the record of a PIN before its 24 hours are over
\* serves exactly the bytes of the upload that record was published from.
C11_RoundTrip ==
    [][\A t \in Threads :
          (/\ run[t].pc = "read_blob"
           /\ run'[t].pc = "done" /\ run'[t].shown = "download"
           /\ ~Expired(run[t].file_info, now))
            => run'[t].file_data \in PublishedData(run[t].file_info)]_vars

\* the place a path names lies below STORAGE_DIR
InsideRoot(path) ==
    LET n == NormPath(path)
    IN  /\ Len(n) > Len(STORAGE_DIR)
        /\ SubSeq(n, 1, Len(STORAGE_DIR)) = STORAGE_DIR

\* C12: whatever the name of the upload, every file that save_file_with_pin
\* has opened for writing lies below STORAGE_DIR.
C12_WritesInsideRoot ==
    \A q \in DOMAIN blobs : InsideRoot(q)

\* C13: a PIN that a page has shown as the PIN of an upload is never returned
\* by generate_pin to a later upload once the record of that upload has been
\* removed (expired and cleaned up, or evicted): no PIN is used twice.
C13_PinNeverReissued ==
    [][\A t \in Threads :
          run[t].pc = "generate_pin_loop" /\ run'[t].pc = "open_blob"
            => run'[t].pin \notin issued \ committed]_vars

\* the run has published an upload, no save it made has failed, and its page
\* shows the PIN
Published(t) ==
    /\ run[t].pc = "done" /\ run[t].tab = "upload"
    /\ run[t].shown = "uploaded" /\ ~run[t].st_error

\* C14: when two publishes with different PINs have both completed (and
\* nothing can have expired yet), the records of both are in the metadata
\* file: no update is lost.
C14_NoLostUpdate ==
    \A t1, t2 \in Threads :
        (/\ t1 # t2
         /\ Published(t1) /\ Published(t2)
         /\ run[t1].pin # run[t2].pin
         /\ now <= TTL)
            => {run[t1].pin, run[t2].pin} \subseteq DOMAIN load_file_metadata

\* C15: cleanup_old_files never deletes a blob that a record of the metadata
\* file which has not expired refers to, and when it returns no expired
\* record whose blob it deleted is left in the metadata file.
C15_ReaperSparesLive ==
    [][\A t \in Threads :
          /\ (run[t].pc = "cleanup_loop" /\ run'[t] # run[t])
                => \A q \in DOMAIN blobs \ DOMAIN blobs' :
                      \A p \in DOMAIN load_file_metadata :
                          load_file_metadata[p].filepath = q
                            => Expired(load_file_metadata[p], now)
          /\ (SaveReturns(t) /\ run[t].caller = "cleanup")
                => \A p \in run[t].pins_to_remove :
                      p \in DOMAIN load_file_metadata'
                        => ~Expired(load_file_metadata'[p], now)]_vars

\* the PINs whose records the save of cleanup_old_files or of the download
\* tab is about to remove
Removes(t) ==
    IF run[t].caller = "cleanup" THEN run[t].pins_to_remove
    ELSE IF run[t].caller = "evict" THEN {run[t].pin_input}
    ELSE {}

\* C16: a removal and a publish that overlap leave the metadata file as if
\* one had run after the other: the document with which a removal replaces
\* the file keeps every record published meanwhile (that the removal would
\* not itself have removed), and the document with which a publish replaces
\* the file brings back no record removed meanwhile.
C16_RemovalSerialized ==
    [][\A t \in Threads :
          (/\ run[t].pc = "save_open" /\ run'[t].pc = "save_write"
           /\ metaFile.kind = "ok")
            => LET cur == load_file_metadata
                   md == run[t].metadata
               IN  /\ run[t].caller \in {"cleanup", "evict"}
                        => \A p \in DOMAIN cur \ Removes(t) :
                              \/ p \in DOMAIN md /\ md[p] = cur[p]
                              \/ /\ run[t].caller = "cleanup"
                                 /\ Expired(cur[p], run[t].current_time)
                   /\ run[t].caller = "upload"
                        => \A p \in DOMAIN md \ {run[t].pin} :
                              p \in DOMAIN cur /\ md[p] = cur[p]]_vars

\* C17: a load made while save_file_metadata is writing returns the whole
\* mapping the file held before the save or the whole mapping being saved:
\* what the file holds once it is open for writing parses to one of the two.
C17_SaveAtomic ==
    [][\A t \in Threads :
          (run[t].pc = "save_open" /\ run'[t].pc = "save_write")
            => load_file_metadata' \in {load_file_metadata, run[t].metadata}]_vars

\* save_file_with_pin is writing the blob of its PIN (lines 74-75)
WritingBlob(t) ==
    run[t].tab = "upload" /\ run[t].pc \in {"open_blob", "write_blob"}

\* C18: the metadata file holds no record for a PIN whose blob a publish is
\* still writing, and none for the PIN of a publish at the moment its blob
\* write fails.
C18_RecordAfterBlob ==
    [][\A t \in Threads :
          /\ WritingBlob(t)'
                => run'[t].pin \notin DOMAIN load_file_metadata'
          /\ (WritingBlob(t) /\ run'[t].shown = "upload_error")
                => run[t].pin \notin DOMAIN load_file_metadata']_vars

\* C19: the download tab deletes the record it found with its blob missing
\* and no other: when it deletes, the record stored under pin_input is still
\* the one get_file_by_pin returned, and not a record published since whose
\* blob exists.
C19_EvictsObserved ==
    [][\A t \in Threads :
          (run[t].pc = "evict" /\ run'[t].pc = "save_lock")
            => LET stored == load_file_metadata[run[t].pin_input]
               IN  stored = run[t].file_info \/ ~Exists(stored.filepath)]_vars

\* file_lock is held by a thread exactly while the thread is inside the with
\* block of save_file_metadata
LockHeldInsideWith ==
    \A t \in Threads :
        file_lock = t <=> run[t].pc \in {"save_open", "save_write"}

\* C20: file_lock is released on every way out of save_file_metadata, the
\* failing ones included, no thread asks for it while holding it, and a
\* thread that waits for it gets it (unless the process is killed first).
C20_LockNeverStuck ==
    /\ []LockHeldInsideWith
    /\ \A t \in Threads :
          (run[t].pc = "save_lock") ~> (file_lock = t \/ crashed)

\* a thread is inside the with block after the save of another thread raised
C20_Witness ==
    \E t1, t2 \in Threads :
        /\ t1 # t2
        /\ file_lock = t1 /\ run[t1].pc = "save_write"
        /\ run[t2].pc = "done" /\ run[t2].st_error

====
